---- MODULE Spec2Model ----
(***************************************************************************)
(* A model of the gt4py build cache (src/gt4py/backend/cache.py, used by   *)
(* src/gt4py/backend/base.py) and of the GTIR upcasting pass               *)
(* (src/gtc/passes/gtir_upcaster.py).                                      *)
(*                                                                         *)
(* Text (str) is a sequence of characters, each character a one-letter     *)
(* string; a file's data is a sequence of text chunks (module source) or   *)
(* of pickle tokens (cache-info record).                                   *)
(***************************************************************************)
EXTENDS Integers, Sequences, FiniteSets, TLC

\* ------------------------------------------------------------------ bounds

\* Number of distinct module sources a generator may render.
NumSources == 2

\* A truncated record file keeps at most this many tokens of the record.
MaxTruncated == 3

\* pickle.load reads the record file this many tokens at a time, and
\* pickle.dump's writes reach the file this many tokens at a time.
ReadChunk == 4

WriteChunk == 3

\* The trees handed to the upcasting pass have at most this many nodes.
MaxNodes == 5

\* A native function call has at most this many arguments.
MaxArgs == 3

\* The condition of a conditional operation has at most this many nodes, also
\* in a tree that MaxNodes would not admit.
MaxCondNodes == 3

\* ------------------------------------------------------- text and os.path

\* os.path.join(a, b)
os_path_join(a, b) == a \o <<"/">> \o b

\* str.split(sep): the components of s between occurrences of sep
RECURSIVE split(_, _)
split(s, sep) ==
    IF \A i \in 1..Len(s) : s[i] # sep
    THEN <<s>>
    ELSE LET i == CHOOSE j \in 1..Len(s) :
                      s[j] = sep /\ \A k \in 1..(j - 1) : s[k] # sep
         IN  <<SubSeq(s, 1, i - 1)>> \o split(SubSeq(s, i + 1, Len(s)), sep)

\* os.path.join(base, *components)
RECURSIVE os_path_join_all(_, _)
os_path_join_all(base, components) ==
    IF components = <<>>
    THEN base
    ELSE os_path_join_all(os_path_join(base, Head(components)), Tail(components))

\* os.path.dirname(path): the text before the last "/"
os_path_dirname(path) ==
    LET i == CHOOSE j \in 1..Len(path) :
                 path[j] = "/" /\ \A k \in (j + 1)..Len(path) : path[k] # "/"
    IN  SubSeq(path, 1, i - 1)

\* gt_utils.slugify(value): the characters of value that are valid in a slug
SlugValidChars == {"d", "x", "g", "t", "-", "_", ".", "(", ")"}

RECURSIVE slugify(_)
slugify(value) ==
    IF value = <<>>
    THEN <<>>
    ELSE (IF Head(value) \in SlugValidChars THEN <<Head(value)>> ELSE <<>>)
             \o slugify(Tail(value))

\* ------------------------------------------------------------ the inputs

\* backend ids (cls.name): "d:x" and "dx" have the same slug
BackendIds == { <<"d", ":", "x">>, <<"d", "x">> }

\* stencil ids: qualified_name "p.a" with version "b__c" and qualified_name
\* "p.a__b" with version "c" derive the same class name; "p.a" with version
\* "c" is the first one's qualified name at another version
StencilIds ==
    { [qualified_name |-> <<"p", ".", "a">>, version |-> <<"b", "_", "_", "c">>],
      [qualified_name |-> <<"p", ".", "a", "_", "_", "b">>, version |-> <<"c">>],
      [qualified_name |-> <<"p", ".", "a">>, version |-> <<"c">>] }

\* gt_config.cache_settings["root_path"], ["dir_name"]
cache_settings == [root_path |-> <<"r">>, dir_name |-> <<".", "c">>]

\* "py{major}{minor}_{api}" of the running interpreter
cpython_id == <<"p", "y", "3">>

\* gt4py.__version__
gt_version == <<"0", ".", "1">>

\* ------------------------------------------------------ path derivation

\* get_stencil_class_name with the version left out of the name
get_stencil_class_name_NoVersion(stencil_id) ==
    LET components == split(stencil_id.qualified_name, ".")
    IN  components[Len(components)]

get_stencil_class_name(stencil_id) ==
    LET components == split(stencil_id.qualified_name, ".")
    IN  components[Len(components)] \o <<"_", "_">> \o stencil_id.version

get_stencil_module_name(stencil_id) ==
    <<"m", "_">> \o get_stencil_class_name(stencil_id)

\* the cache folder get_base_path initializes when it is absent
cache_root == os_path_join(cache_settings.root_path, cache_settings.dir_name)

\* get_base_path's result (its directory creation is GetBasePathEffect)
get_base_path(backend_id) ==
    os_path_join(os_path_join(cache_root, cpython_id), slugify(backend_id))

get_stencil_package_path(backend_id, stencil_id) ==
    LET components == split(stencil_id.qualified_name, ".")
    IN  os_path_join_all(get_base_path(backend_id),
                         SubSeq(components, 1, Len(components) - 1))

get_stencil_module_path(backend_id, stencil_id) ==
    os_path_join(get_stencil_package_path(backend_id, stencil_id),
                 get_stencil_module_name(stencil_id) \o <<".", "p", "y">>)

get_cache_info_path(backend_id, stencil_id) ==
    LET path == get_stencil_module_path(backend_id, stencil_id)
    IN  SubSeq(path, 1, Len(path) - 3)
            \o <<".cacheinfo">>

ModulePaths ==
    { get_stencil_module_path(b, id) : b \in BackendIds, id \in StencilIds }

InfoPaths ==
    { get_cache_info_path(b, id) : b \in BackendIds, id \in StencilIds }

\* the two paths of every input, derived once
ModulePath ==
    [b \in BackendIds, id \in StencilIds |-> get_stencil_module_path(b, id)]

InfoPath ==
    [b \in BackendIds, id \in StencilIds |-> get_cache_info_path(b, id)]

\* --------------------------------------------------- values and records

\* a Python value: its type and its text
PyStr(s) == [t |-> "str", v |-> s]
PyInt(s) == [t |-> "int", v |-> s]

\* the value of a key a dict does not hold
Absent == [t |-> "absent", v |-> <<>>]

\* the keys of a cache-info dict: those generate_cache_info sets, and one a
\* backend adds (extra_cache_info)
StdKeys == {"backend", "stencil_name", "stencil_version", "module_shash"}

AllKeys == StdKeys \cup {"gt4py_version", "pyext_module_name"}

\* the order in which a dict built by generate_cache_info holds its keys
KeyOrder ==
    <<"gt4py_version", "backend", "stencil_name", "stencil_version",
      "module_shash", "pyext_module_name">>

\* a dict maps every key of AllKeys to its value, or to Absent
EmptyDict == [k \in AllKeys |-> Absent]

DictKeys(d) == {k \in AllKeys : d[k] # Absent}

\* {**a, **b}
DictMerge(a, b) == [k \in AllKeys |-> IF b[k] # Absent THEN b[k] ELSE a[k]]

\* the module sources a generator renders, as the chunks it writes
Source(i) == <<"def", ToString(i)>>

Sources == {Source(i) : i \in 1..NumSources}

\* gt_utils.shash(source): a digest, distinct for distinct texts
shash(source) == PyStr(<<"#">> \o source)

\* ------------------------------------------------------------- the files

\* a file: absent, a regular file with its data, or one open() is refused on
AbsentFile == [st |-> "absent", data |-> <<>>]
NoAccessFile == [st |-> "noaccess", data |-> <<>>]
RegularFile(data) == [st |-> "file", data |-> data]

\* the outcome of a call: it raised, or it returned value
Raise == [raised |-> TRUE, value |-> FALSE]
Ret(v) == [raised |-> FALSE, value |-> v]

\* ---------------------------------------------------------------- pickle

\* one token of a pickle stream
Tok(op) == [op |-> op, k |-> "", v |-> Absent]
ItemTok(k, v) == [op |-> "ITEM", k |-> k, v |-> v]

\* the items of dict d from position i of KeyOrder on
RECURSIVE pickle_items(_, _)
pickle_items(d, i) ==
    IF i > Len(KeyOrder)
    THEN <<>>
    ELSE (IF d[KeyOrder[i]] # Absent
          THEN <<ItemTok(KeyOrder[i], d[KeyOrder[i]])>>
          ELSE <<>>) \o pickle_items(d, i + 1)

\* pickle.dump(cache_info, f): the stream written for a dict
pickle_dumps(d) ==
    <<Tok("PROTO"), Tok("EMPTY_DICT")>> \o pickle_items(d, 1) \o <<Tok("STOP")>>

\* a pickle of a value that is no dict (a list)
PickledList == <<Tok("PROTO"), Tok("EMPTY_LIST"), Tok("STOP")>>

\* the unpickler from token i on, acc the dict built so far: it ends at the
\* first STOP, and raises at the end of the data or at a token that is no item
RECURSIVE pickle_scan(_, _, _)
pickle_scan(data, i, acc) ==
    IF i > Len(data)
    THEN Raise
    ELSE IF data[i].op = "STOP"
    THEN Ret(acc)
    ELSE IF data[i].op = "ITEM"
    THEN pickle_scan(data, i + 1, [acc EXCEPT ![data[i].k] = data[i].v])
    ELSE Raise

\* pickle.load(f) on the data read: the value, [isdict, d], or an exception
pickle_loads(data) ==
    IF Len(data) < 2 \/ data[1].op # "PROTO"
    THEN Raise
    ELSE IF data[2].op = "EMPTY_DICT"
    THEN LET r == pickle_scan(data, 3, EmptyDict)
         IN  IF r.raised THEN Raise ELSE Ret([isdict |-> TRUE, d |-> r.value])
    ELSE IF data[2].op = "EMPTY_LIST" /\ Len(data) >= 3 /\ data[3].op = "STOP"
    THEN Ret([isdict |-> FALSE, d |-> EmptyDict])
    ELSE Raise

\* ------------------------------------------------------- cache operations

\* the standard fields generate_cache_info computes from the module source
StandardInfo(backend_id, stencil_id, source) ==
    [k \in AllKeys |->
        CASE k = "gt4py_version"   -> PyStr(gt_version)
          [] k = "backend"         -> PyStr(backend_id)
          [] k = "stencil_name"    -> PyStr(stencil_id.qualified_name)
          [] k = "stencil_version" -> PyStr(stencil_id.version)
          [] k = "module_shash"    -> shash(source)
          [] OTHER                 -> Absent]

\* generate_cache_info hashing the module's file name instead of its source
generate_cache_info_HashName(backend_id, stencil_id, extra_cache_info, mods) ==
    LET f == mods[ModulePath[backend_id, stencil_id]]
    IN  IF f.st # "file"
        THEN Raise
        ELSE Ret(DictMerge(StandardInfo(backend_id, stencil_id,
                                        ModulePath[backend_id, stencil_id]),
                           extra_cache_info))

\* generate_cache_info with the module files mods: the dict, or the exception
\* of open() on the module file
generate_cache_info(backend_id, stencil_id, extra_cache_info, mods) ==
    LET f == mods[ModulePath[backend_id, stencil_id]]
    IN  IF f.st # "file"
        THEN Raise
        ELSE Ret(DictMerge(StandardInfo(backend_id, stencil_id, f.data),
                           extra_cache_info))

\* cache_info.<key> == value: AttributeError when the namespace lacks the key
AttrEquals(ns, key, value) ==
    IF ns[key] = Absent THEN Raise ELSE Ret(ns[key] = value)

\* a and b of Python: b is evaluated only when a is true
AndThen(a, b) ==
    IF a.raised THEN Raise ELSE IF ~a.value THEN Ret(FALSE) ELSE b

\* ValidateTry without the comparison of the module's hash
ValidateTry_NoHash(backend_id, stencil_id, cache_info, mods) ==
    LET f == mods[ModulePath[backend_id, stencil_id]]
        ns == cache_info.d
    IN  IF ~cache_info.isdict
        THEN Raise
        ELSE IF f.st # "file"
        THEN Raise
        ELSE AndThen(AttrEquals(ns, "backend", PyStr(backend_id)),
             AndThen(AttrEquals(ns, "stencil_name", PyStr(stencil_id.qualified_name)),
                     AttrEquals(ns, "stencil_version", PyStr(stencil_id.version))))

\* the try block of validate_cache_info without the comparison of the backend
ValidateTry_NoBackend(backend_id, stencil_id, cache_info, mods) ==
    LET f == mods[ModulePath[backend_id, stencil_id]]
        ns == cache_info.d
    IN  IF ~cache_info.isdict
        THEN Raise
        ELSE IF f.st # "file"
        THEN Raise
        ELSE AndThen(AttrEquals(ns, "stencil_name", PyStr(stencil_id.qualified_name)),
             AndThen(AttrEquals(ns, "stencil_version", PyStr(stencil_id.version)),
                     AttrEquals(ns, "module_shash", shash(f.data))))

\* the try block of validate_cache_info
ValidateTry(backend_id, stencil_id, cache_info, mods) ==
    LET f == mods[ModulePath[backend_id, stencil_id]]
        ns == cache_info.d
    IN  IF ~cache_info.isdict
        THEN Raise
        ELSE IF f.st # "file"
        THEN Raise
        ELSE AndThen(AttrEquals(ns, "backend", PyStr(backend_id)),
             AndThen(AttrEquals(ns, "stencil_name", PyStr(stencil_id.qualified_name)),
             AndThen(AttrEquals(ns, "stencil_version", PyStr(stencil_id.version)),
                     AttrEquals(ns, "module_shash", shash(f.data)))))

\* validate_cache_info without its except clause
validate_cache_info_NoExcept(backend_id, stencil_id, cache_info, mods) ==
    ValidateTry(backend_id, stencil_id, cache_info, mods)

\* validate_cache_info: except Exception: result = False
validate_cache_info(backend_id, stencil_id, cache_info, mods) ==
    LET r == ValidateTry(backend_id, stencil_id, cache_info, mods)
    IN  IF r.raised THEN Ret(FALSE) ELSE r

\* the try block of check_cache with the record files recs
CheckTry(backend_id, stencil_id, recs, mods) ==
    LET f == recs[InfoPath[backend_id, stencil_id]]
    IN  IF f.st # "file"
        THEN Raise
        ELSE LET cache_info == pickle_loads(f.data)
             IN  IF cache_info.raised
                 THEN Raise
                 ELSE IF ~cache_info.value.isdict
                 THEN Raise
                 ELSE validate_cache_info(backend_id, stencil_id,
                                          cache_info.value, mods)

\* check_cache without its except clause
check_cache_NoExcept(backend_id, stencil_id, recs, mods) ==
    CheckTry(backend_id, stencil_id, recs, mods)

\* check_cache: except Exception: result = False
check_cache(backend_id, stencil_id, recs, mods) ==
    LET r == CheckTry(backend_id, stencil_id, recs, mods)
    IN  IF r.raised THEN Ret(FALSE) ELSE r

\* os.makedirs(path, exist_ok=True): path and its parents below the root path
makedirs(path) ==
    { SubSeq(path, 1, i) :
        i \in { j \in Len(cache_root)..Len(path) :
                    j = Len(path) \/ path[j + 1] = "/" } }

\* --------------------------------------------------------- the GTIR nodes

\* gtc.common.DataType (an IntEnum): the members the trees below use
INT32 == 14

FLOAT32 == 104

FLOAT64 == 108

DataType == {INT32, FLOAT32, FLOAT64}

\* max() of a non-empty collection of dtypes
Max(S) == CHOOSE x \in S : \A y \in S : y <= x

\* An object's identity.  A node of the input tree is named by its position
\* (the path from the root); an object allocated by the pass is named by a tag
\* and the identity of the object it was made from, so that no two objects
\* alive at the same time share a name.
NewId(tag, of) == <<tag>> \o of

\* node.copy(...) allocates an object
CopyTag == 0

\* gtir.Cast(...) allocates an object
CastTag == -1

\* the fields of a node that hold one node
NodeFields == {"left", "right", "cond", "true_expr", "false_expr", "expr"}

FieldAccess(oid, dtype) ==
    [kind |-> "FieldAccess", oid |-> oid, dtype |-> dtype]

Cast(oid, dtype, expr) ==
    [kind |-> "Cast", oid |-> oid, dtype |-> dtype, expr |-> expr]

\* dtype: the common dtype of the operands, by upcasting
BinaryOp(oid, left, right) ==
    [kind |-> "BinaryOp", oid |-> oid,
     dtype |-> Max({left.dtype, right.dtype}),
     left |-> left, right |-> right]

TernaryOp(oid, cond, true_expr, false_expr) ==
    [kind |-> "TernaryOp", oid |-> oid,
     dtype |-> Max({true_expr.dtype, false_expr.dtype}),
     cond |-> cond, true_expr |-> true_expr, false_expr |-> false_expr]

NativeFuncCall(oid, args) ==
    [kind |-> "NativeFuncCall", oid |-> oid,
     dtype |-> Max({args[i].dtype : i \in DOMAIN args}),
     args |-> args]

ParAssignStmt(oid, left, right) ==
    [kind |-> "ParAssignStmt", oid |-> oid, left |-> left, right |-> right]

RECURSIVE Exprs(_, _)
RECURSIVE ArgLists(_, _, _)

\* the lists of at most MaxArgs - i + 1 expressions with m nodes in all, the
\* first of them at position i of the node oid
ArgLists(m, oid, i) ==
    IF m = 0 THEN {<<>>}
    ELSE IF i > MaxArgs THEN {}
    ELSE UNION {{<<a>> \o rest : a \in Exprs(s, oid \o <<i>>),
                                 rest \in ArgLists(m - s, oid, i + 1)} :
                s \in 1..m}

\* the dtype-resolved expressions of exactly n nodes, the root being oid
Exprs(n, oid) ==
    IF n = 1
    THEN {FieldAccess(oid, d) : d \in DataType}
    ELSE {Cast(oid, d, e) : d \in DataType, e \in Exprs(n - 1, oid \o <<1>>)}
         \cup UNION {{BinaryOp(oid, l, r) :
                         l \in Exprs(a, oid \o <<1>>),
                         r \in Exprs(n - 1 - a, oid \o <<2>>)} :
                     a \in 1..(n - 2)}
         \cup UNION {{TernaryOp(oid, c, t, f) :
                         c \in Exprs(ab[1], oid \o <<1>>),
                         t \in Exprs(ab[2], oid \o <<2>>),
                         f \in Exprs(n - 1 - ab[1] - ab[2], oid \o <<3>>)} :
                     ab \in {x \in (1..n) \X (1..n) : x[1] + x[2] <= n - 2}}
         \cup {NativeFuncCall(oid, args) : args \in ArgLists(n - 1, oid, 1)}

\* the parallel assignments of exactly n nodes
Stmts(n) ==
    IF n < 3 THEN {}
    ELSE {ParAssignStmt(<<>>, FieldAccess(<<1>>, d), r) :
             d \in DataType, r \in Exprs(n - 2, <<2>>)}

\* the conditional operations over two fields and a condition of at most
\* MaxCondNodes nodes
Conditionals ==
    {TernaryOp(<<>>, c, FieldAccess(<<2>>, t), FieldAccess(<<3>>, f)) :
        c \in UNION {Exprs(n, <<1>>) : n \in 1..MaxCondNodes},
        t \in DataType, f \in DataType}

\* the trees handed to the pass
Nodes ==
    UNION {Exprs(n, <<>>) \cup Stmts(n) : n \in 1..MaxNodes} \cup Conditionals

NoNode == [kind |-> "None"]

\* ------------------------------------------------------ the upcasting pass

RECURSIVE dict(_)
RECURSIVE dict_value(_, _)

\* the value of field k in node.dict()
dict_value(k, v) ==
    IF k = "args" THEN [i \in DOMAIN v |-> dict(v[i])]
    ELSE IF k \in NodeFields THEN dict(v)
    ELSE v

\* node.dict(): the fields of the node, its children as dicts in turn; the
\* object's identity is no part of it
dict(node) == [k \in DOMAIN node \ {"oid"} |-> dict_value(k, node[k])]

\* node.copy(update=...): a new object, the fields named in update replaced
copy(node, update) ==
    [k \in DOMAIN node |->
        IF k = "oid" THEN NewId(CopyTag, node.oid)
        ELSE IF k \in DOMAIN update THEN update[k]
        ELSE node[k]]

\* _upcast_node with the dtype test dropped
_upcast_node_Always(target_dtype, node) ==
    Cast(NewId(CastTag, node.oid), target_dtype, node)

\* _upcast_node that never inserts a Cast
_upcast_node_Never(target_dtype, node) == node

_upcast_node(target_dtype, node) ==
    IF node.dtype = target_dtype
    THEN node
    ELSE Cast(NewId(CastTag, node.oid), target_dtype, node)

\* _upcast_nodes with min in the place of max
_upcast_nodes_Min(exprs) ==
    LET target_dtype ==
            CHOOSE x \in {exprs[i].dtype : i \in DOMAIN exprs} :
                \A i \in DOMAIN exprs : x <= exprs[i].dtype
    IN  [i \in DOMAIN exprs |-> _upcast_node(target_dtype, exprs[i])]

_upcast_nodes(exprs) ==
    LET target_dtype == Max({exprs[i].dtype : i \in DOMAIN exprs})
    IN  [i \in DOMAIN exprs |-> _upcast_node(target_dtype, exprs[i])]

\* _update_node with the comparison dropped
_update_node_AlwaysCopy(node, updated_children) ==
    copy(node, updated_children)

_update_node(node, updated_children) ==
    IF \E k \in DOMAIN updated_children :
           dict_value(k, node[k]) # dict_value(k, updated_children[k])
    THEN copy(node, updated_children)
    ELSE node

RECURSIVE visit(_)

\* NodeTranslator.generic_visit: the children visited; the node itself when
\* no child changed, a copy with the new children otherwise
generic_visit(node) ==
    IF node.kind = "Cast"
    THEN LET expr == visit(node.expr)
         IN  IF expr = node.expr \/ dict(expr) = dict(node.expr)
             THEN node
             ELSE copy(node, [expr |-> expr])
    ELSE node

\* visit_BinaryOp that puts the promoted operands back in the other order
visit_BinaryOp_Swapped(node) ==
    LET operands == _upcast_nodes(<<visit(node.left), visit(node.right)>>)
    IN  _update_node(node, [left |-> operands[2], right |-> operands[1]])

visit_BinaryOp(node) ==
    LET operands == _upcast_nodes(<<visit(node.left), visit(node.right)>>)
    IN  _update_node(node, [left |-> operands[1], right |-> operands[2]])

\* visit_TernaryOp promoting the condition together with the branches
visit_TernaryOp_WithCond(node) ==
    LET all == _upcast_nodes(<<visit(node.true_expr), visit(node.false_expr),
                               visit(node.cond)>>)
    IN  _update_node(node, [true_expr |-> all[1], false_expr |-> all[2],
                            cond |-> all[3]])

visit_TernaryOp(node) ==
    LET branches ==
            _upcast_nodes(<<visit(node.true_expr), visit(node.false_expr)>>)
    IN  _update_node(node, [true_expr |-> branches[1],
                            false_expr |-> branches[2],
                            cond |-> visit(node.cond)])

\* visit_NativeFuncCall taking the first argument's dtype as the target
visit_NativeFuncCall_First(node) ==
    LET visited == [i \in DOMAIN node.args |-> visit(node.args[i])]
        args == [i \in DOMAIN visited |->
                    _upcast_node(visited[1].dtype, visited[i])]
    IN  _update_node(node, [args |-> args])

visit_NativeFuncCall(node) ==
    LET args == _upcast_nodes([i \in DOMAIN node.args |-> visit(node.args[i])])
    IN  _update_node(node, [args |-> args])

\* visit_ParAssignStmt promoting both sides to the wider dtype
visit_ParAssignStmt_Widest(node) ==
    LET sides == _upcast_nodes(<<node.left, visit(node.right)>>)
    IN  _update_node(node, [left |-> sides[1], right |-> sides[2]])

visit_ParAssignStmt(node) ==
    LET right == _upcast_node(node.left.dtype, visit(node.right))
    IN  _update_node(node, [right |-> right])

\* NodeVisitor.visit: the method named after the node's class, if any
visit(node) ==
    CASE node.kind = "BinaryOp" -> visit_BinaryOp(node)
      [] node.kind = "TernaryOp" -> visit_TernaryOp(node)
      [] node.kind = "NativeFuncCall" -> visit_NativeFuncCall(node)
      [] node.kind = "ParAssignStmt" -> visit_ParAssignStmt(node)
      [] OTHER -> generic_visit(node)

upcast(node) == visit(node)

\* ------------------------------------------------------------- the state

VARIABLES
    dirs,       \* the directories that exist below the root path
    modfile,    \* the generated module file at each module path
    recfile,    \* the cache-info record file at each cache-info path
    updated,    \* per cache-info path: the last completed update_cache, while
                \* nothing but update_cache has touched the record since
    vcall,      \* a direct call of validate_cache_info: its arguments
    vres,       \* and its outcome: [done, raised, value]
    proc,       \* per process: the request it runs and where it is in it
    root,       \* the tree handed to upcast
    out1,       \* upcast(root)
    out2,       \* upcast(upcast(root))
    passes      \* how many times the pass has run

cacheVars == <<dirs, modfile, recfile, updated>>

validateVars == <<vcall, vres>>

upcastVars == <<root, out1, out2, passes>>

vars ==
    <<dirs, modfile, recfile, updated, vcall, vres, proc,
      root, out1, out2, passes>>

NoUpdate ==
    [valid |-> FALSE, backend_id |-> <<>>,
     stencil_id |-> [qualified_name |-> <<>>, version |-> <<>>],
     extra |-> EmptyDict, source |-> <<>>]

NoCall ==
    [backend_id |-> <<>>,
     stencil_id |-> [qualified_name |-> <<>>, version |-> <<>>],
     cache_info |-> EmptyDict]

NoResult == [done |-> FALSE, raised |-> FALSE, value |-> FALSE]

\* the processes that share the cache root
Procs == {"p1", "p2"}

\* a process that runs no request
IdleProc ==
    [pc |-> "idle", req |-> "none", backend_id |-> <<>>, source |-> <<>>,
     extra |-> EmptyDict, before |-> AbsentFile,
     exists |-> FALSE, made |-> FALSE, calls |-> 0, first |-> <<>>,
     options |-> {}, has_id |-> TRUE,
     wdata |-> <<>>, woff |-> 0, rbuf |-> <<>>, roff |-> 0,
     result |-> Ret(FALSE), checked |-> AbsentFile, loaded |-> AbsentFile]

\* get_base_path: the cache folder is created when it does not exist
GetBasePathEffect(ds) == ds \cup {cache_root}

\* the extra_cache_info a backend passes: none, a key of its own, and keys
\* that shadow standard ones
ExtraInfos ==
    { EmptyDict,
      [EmptyDict EXCEPT !["pyext_module_name"] = PyStr(<<"x">>)],
      [EmptyDict EXCEPT !["backend"] = PyStr(<<"d", "x">>)],
      [EmptyDict EXCEPT !["module_shash"] = shash(Source(1))] }

InitCache ==
    /\ dirs = {}
    /\ modfile = [p \in ModulePaths |-> AbsentFile]
    /\ recfile = [p \in InfoPaths |-> AbsentFile]
    /\ updated = [p \in InfoPaths |-> NoUpdate]
    /\ vcall = NoCall
    /\ vres = NoResult
    /\ proc = [p \in Procs |-> IdleProc]
    /\ root = NoNode
    /\ out1 = NoNode
    /\ out2 = NoNode
    /\ passes = 0

\* update_cache(backend_id, stencil_id, extra_cache_info): it raises, leaving
\* the record as it is, when the module file cannot be read or the record file
\* cannot be opened for writing
UpdateCache(backend_id, stencil_id, extra_cache_info) ==
    LET cache_info == generate_cache_info(backend_id, stencil_id,
                                          extra_cache_info, modfile)
        cache_file_name == InfoPath[backend_id, stencil_id]
    IN  /\ UNCHANGED <<modfile, vcall, vres, proc, upcastVars>>
        /\ IF cache_info.raised
           THEN /\ dirs' = GetBasePathEffect(dirs)
                /\ UNCHANGED <<recfile, updated>>
           ELSE /\ dirs' = GetBasePathEffect(dirs)
                               \cup makedirs(os_path_dirname(cache_file_name))
                /\ IF recfile[cache_file_name].st = "noaccess"
                   THEN UNCHANGED <<recfile, updated>>
                   ELSE /\ recfile' = [recfile EXCEPT ![cache_file_name] =
                              RegularFile(pickle_dumps(cache_info.value))]
                        /\ updated' = [updated EXCEPT ![cache_file_name] =
                              [valid |-> TRUE, backend_id |-> backend_id,
                               stencil_id |-> stencil_id,
                               extra |-> extra_cache_info,
                               source |-> modfile[ModulePath[
                                              backend_id, stencil_id]].data]]

\* check_cache(backend_id, stencil_id): its value is
\* check_cache(backend_id, stencil_id, recfile, modfile); computing the paths
\* initializes the cache folder
CheckCache(backend_id, stencil_id) ==
    /\ UNCHANGED <<vcall, vres, proc, upcastVars>>
    /\ dirs' = GetBasePathEffect(dirs)
    /\ UNCHANGED <<modfile, recfile, updated>>

\* the generation step writes the module source (BaseBackend._generate_module,
\* up to the write of the file)
WriteModule(backend_id, stencil_id, module_source) ==
    LET file_name == ModulePath[backend_id, stencil_id]
    IN  /\ dirs' = GetBasePathEffect(dirs) \cup makedirs(os_path_dirname(file_name))
        /\ modfile' = [modfile EXCEPT ![file_name] = RegularFile(module_source)]
        /\ UNCHANGED <<recfile, updated, vcall, vres, proc, upcastVars>>

\* what happens to a module file outside the cache: it is deleted, or
\* truncated (a partial rewrite, a crash in the middle of a write)
TamperModule(path) ==
    /\ UNCHANGED <<vcall, vres, proc, upcastVars>>
    /\ modfile[path].st = "file"
    /\ \E f \in {AbsentFile}
              \cup { RegularFile(SubSeq(modfile[path].data, 1, n)) :
                        n \in 1..(Len(modfile[path].data) - 1) } :
          modfile' = [modfile EXCEPT ![path] = f]
    /\ UNCHANGED <<dirs, recfile, updated>>

\* what happens to a record file outside the cache: it is deleted, made
\* unreadable, truncated, or replaced by a pickle of a value that is no dict
TamperRecord(path) ==
    /\ UNCHANGED <<vcall, vres, proc, upcastVars>>
    /\ recfile[path].st = "file"
    /\ \E f \in {AbsentFile, NoAccessFile, RegularFile(PickledList)}
              \cup { RegularFile(SubSeq(recfile[path].data, 1, n)) :
                        n \in { m \in 0..MaxTruncated :
                                    m < Len(recfile[path].data) } } :
          /\ f # recfile[path]
          /\ recfile' = [recfile EXCEPT ![path] = f]
    /\ updated' = [updated EXCEPT ![path] = NoUpdate]
    /\ UNCHANGED <<dirs, modfile>>

NextCache ==
    \/ \E b \in BackendIds, id \in StencilIds, e \in ExtraInfos :
           UpdateCache(b, id, e)
    \/ \E b \in BackendIds, id \in StencilIds : CheckCache(b, id)
    \/ \E b \in BackendIds, id \in StencilIds, s \in Sources :
           WriteModule(b, id, s)
    \/ \E p \in ModulePaths : TamperModule(p)
    \/ \E p \in InfoPaths : TamperRecord(p)

\* The build cache: update_cache, check_cache and the generation step's write
\* of the module, each as one step, with the files also changing outside.
SpecCache == InitCache /\ [][NextCache]_vars

\* ------------------------------------------- validate_cache_info, directly

\* a dict with the value at key replaced
DictWith(d, key, value) == [d EXCEPT ![key] = value]

\* the records validate_cache_info is called with: the standard fields of any
\* input and source, and those with one key dropped, of the wrong type, or set
\* to another value
ValidateRecords ==
    LET std == { StandardInfo(b, id, s) :
                    b \in BackendIds, id \in StencilIds, s \in Sources }
    IN  std
        \cup { DictWith(d, k, v) :
                  d \in std, k \in StdKeys, v \in {Absent, PyInt(<<"1">>)} }
        \cup { DictWith(d, "gt4py_version", v) :
                  d \in std, v \in {Absent, PyStr(<<"9">>)} }
        \cup { DictWith(d, "pyext_module_name", PyStr(<<"x">>)) : d \in std }

\* the states of the module file validate_cache_info meets
ModuleFileStates ==
    {AbsentFile, NoAccessFile, RegularFile(<<"def">>)}
        \cup { RegularFile(s) : s \in Sources }

InitValidate ==
    /\ dirs = {}
    /\ proc = [p \in Procs |-> IdleProc]
    /\ root = NoNode
    /\ out1 = NoNode
    /\ out2 = NoNode
    /\ passes = 0
    /\ recfile = [p \in InfoPaths |-> AbsentFile]
    /\ updated = [p \in InfoPaths |-> NoUpdate]
    /\ vres = NoResult
    /\ \E b \in BackendIds, id \in StencilIds :
          /\ \E f \in ModuleFileStates :
                modfile = [p \in ModulePaths |->
                              IF p = ModulePath[b, id] THEN f ELSE AbsentFile]
          /\ \E d \in ValidateRecords :
                vcall = [backend_id |-> b, stencil_id |-> id, cache_info |-> d]

\* validate_cache_info(backend_id, stencil_id, cache_info)
ValidateCacheInfo ==
    /\ ~vres.done
    /\ LET r == validate_cache_info(vcall.backend_id, vcall.stencil_id,
                                    [isdict |-> TRUE, d |-> vcall.cache_info],
                                    modfile)
       IN  vres' = [done |-> TRUE, raised |-> r.raised, value |-> r.value]
    /\ dirs' = GetBasePathEffect(dirs)
    /\ UNCHANGED <<modfile, recfile, updated, vcall, proc, upcastVars>>

NextValidate == ValidateCacheInfo

\* validate_cache_info applied to each record and module-file state.
SpecValidate == InitValidate /\ [][NextValidate]_vars

\* ------------------------------------------- processes sharing the cache

\* the stencil the processes of SpecRace compile
RaceStencilId ==
    [qualified_name |-> <<"p", ".", "a">>, version |-> <<"c">>]

RaceModulePath(p) == ModulePath[proc[p].backend_id, RaceStencilId]

RaceInfoPath(p) == InfoPath[proc[p].backend_id, RaceStencilId]

\* f.write(chunk) at offset off of a file opened for writing: the gap a
\* truncation by another process left reads as NUL
RECURSIVE Nuls(_, _)
Nuls(n, nul) == IF n <= 0 THEN <<>> ELSE <<nul>> \o Nuls(n - 1, nul)

WriteAt(data, off, chunk, nul) ==
    IF off >= Len(data)
    THEN data \o Nuls(off - Len(data), nul) \o chunk
    ELSE SubSeq(data, 1, off) \o chunk
            \o SubSeq(data, off + Len(chunk) + 1, Len(data))

\* the next n items of data from offset off
ChunkAt(data, off, n) ==
    SubSeq(data, off + 1, IF off + n <= Len(data) THEN off + n ELSE Len(data))

HasStop(data) == \E i \in 1..Len(data) : data[i].op = "STOP"

Set(p, st) == proc' = [proc EXCEPT ![p] = st]

\* BaseBackend.load(stencil_id, definition_func, options) starts: check_cache
\* opens the record file
LoadStart(p, backend_id) ==
    /\ proc[p].pc = "idle"
    /\ dirs' = GetBasePathEffect(dirs)
    /\ LET st == [IdleProc EXCEPT !.req = "load", !.backend_id = backend_id]
           f == recfile[InfoPath[backend_id, RaceStencilId]]
       IN  IF f.st # "file"
           THEN Set(p, [st EXCEPT !.pc = "done",
                           !.result = check_cache(backend_id, RaceStencilId,
                                                  recfile, modfile)])
           ELSE Set(p, [st EXCEPT !.pc = "check_read"])
    /\ UNCHANGED <<modfile, recfile>>
    /\ UNCHANGED <<updated, vcall, vres, upcastVars>>

\* pickle.load(f) reads the next chunk of the record file
CheckRead(p) ==
    /\ proc[p].pc = "check_read"
    /\ LET data == recfile[RaceInfoPath(p)].data
           chunk == ChunkAt(data, proc[p].roff, ReadChunk)
       IN  IF chunk = <<>>
           THEN Set(p, [proc[p] EXCEPT !.pc = "check_validate"])
           ELSE Set(p, [proc[p] EXCEPT
                           !.rbuf = @ \o chunk,
                           !.roff = @ + Len(chunk),
                           !.pc = IF HasStop(chunk) THEN "check_validate"
                                  ELSE "check_read"])
    /\ UNCHANGED <<dirs, modfile, recfile>>
    /\ UNCHANGED <<updated, vcall, vres, upcastVars>>

\* validate_cache_info with the module file opened for writing
CheckValidate_WriteMode(p) ==
    /\ proc[p].pc = "check_validate"
    /\ modfile' = [modfile EXCEPT ![RaceModulePath(p)] = RegularFile(<<>>)]
    /\ Set(p, [proc[p] EXCEPT !.result = Ret(FALSE),
                              !.checked = modfile[RaceModulePath(p)],
                              !.pc = "done"])
    /\ UNCHANGED <<dirs, recfile>>
    /\ UNCHANGED <<updated, vcall, vres, upcastVars>>

\* check_cache unpickles what it read and validates it against the module
\* file; on a hit load goes on to _load
CheckValidate(p) ==
    /\ proc[p].pc = "check_validate"
    /\ LET r == check_cache(proc[p].backend_id, RaceStencilId,
                            [recfile EXCEPT ![RaceInfoPath(p)] =
                                RegularFile(proc[p].rbuf)],
                            modfile)
       IN  Set(p, [proc[p] EXCEPT
                      !.result = r,
                      !.checked = modfile[RaceModulePath(p)],
                      !.pc = IF ~r.raised /\ r.value THEN "load_module"
                             ELSE "done"])
    /\ UNCHANGED <<dirs, modfile, recfile>>
    /\ UNCHANGED <<updated, vcall, vres, upcastVars>>

\* BaseBackend._load: make_module_from_file reads the module file
LoadModule(p) ==
    /\ proc[p].pc = "load_module"
    /\ Set(p, [proc[p] EXCEPT !.loaded = modfile[RaceModulePath(p)],
                              !.pc = "done"])
    /\ UNCHANGED <<dirs, modfile, recfile>>
    /\ UNCHANGED <<updated, vcall, vres, upcastVars>>

\* BaseBackend.generate -> _generate_module: the generator has rendered
\* module_source; the module file is opened for writing
GenerateStart(p, backend_id, module_source) ==
    /\ proc[p].pc = "idle"
    /\ LET file_name == ModulePath[backend_id, RaceStencilId]
       IN  /\ dirs' = GetBasePathEffect(dirs)
                          \cup makedirs(os_path_dirname(file_name))
           /\ modfile' = [modfile EXCEPT ![file_name] = RegularFile(<<>>)]
    /\ Set(p, [IdleProc EXCEPT !.req = "generate", !.backend_id = backend_id,
                               !.source = module_source, !.pc = "gen_write"])
    /\ UNCHANGED recfile
    /\ UNCHANGED <<updated, vcall, vres, upcastVars>>

\* _generate_module that calls update_cache after the first write to the
\* module file
GenerateWrite_EarlyUpdate(p) ==
    /\ proc[p].pc = "gen_write"
    /\ LET chunk == ChunkAt(proc[p].source, proc[p].woff, 1)
       IN  /\ modfile' = [modfile EXCEPT ![RaceModulePath(p)] =
                             RegularFile(WriteAt(@.data, proc[p].woff, chunk, "NUL"))]
           /\ Set(p, [proc[p] EXCEPT !.woff = 0, !.pc = "update_open"])
    /\ UNCHANGED <<dirs, recfile>>
    /\ UNCHANGED <<updated, vcall, vres, upcastVars>>

\* f.write(module_source) reaches the file one chunk at a time
GenerateWrite(p) ==
    /\ proc[p].pc = "gen_write"
    /\ LET chunk == ChunkAt(proc[p].source, proc[p].woff, 1)
       IN  /\ modfile' = [modfile EXCEPT ![RaceModulePath(p)] =
                             RegularFile(WriteAt(@.data, proc[p].woff, chunk, "NUL"))]
           /\ Set(p, [proc[p] EXCEPT
                         !.woff = IF @ + 1 >= Len(proc[p].source) THEN 0 ELSE @ + 1,
                         !.pc = IF proc[p].woff + 1 >= Len(proc[p].source)
                                THEN "update_open" ELSE "gen_write"])
    /\ UNCHANGED <<dirs, recfile>>
    /\ UNCHANGED <<updated, vcall, vres, upcastVars>>

\* update_cache that opens the record file before it reads the module file
UpdateOpen_OpenFirst(p) ==
    /\ proc[p].pc = "update_open"
    /\ LET cache_info == generate_cache_info(proc[p].backend_id, RaceStencilId,
                                             proc[p].extra, modfile)
       IN  /\ dirs' = GetBasePathEffect(dirs)
                          \cup makedirs(os_path_dirname(RaceInfoPath(p)))
           /\ IF recfile[RaceInfoPath(p)].st = "noaccess"
              THEN /\ Set(p, [proc[p] EXCEPT !.result = Raise, !.pc = "done"])
                   /\ UNCHANGED recfile
              ELSE /\ recfile' = [recfile EXCEPT ![RaceInfoPath(p)] =
                                     RegularFile(<<>>)]
                   /\ IF cache_info.raised
                      THEN Set(p, [proc[p] EXCEPT !.result = Raise,
                                                  !.pc = "done"])
                      ELSE Set(p, [proc[p] EXCEPT
                                     !.wdata = pickle_dumps(cache_info.value),
                                     !.woff = 0, !.pc = "update_write"])
    /\ UNCHANGED modfile
    /\ UNCHANGED <<updated, vcall, vres, upcastVars>>

\* update_cache: generate_cache_info reads the module file as it is now, and
\* the record file is opened for writing, which truncates it; an error of
\* either ends update_cache
UpdateOpen(p) ==
    /\ proc[p].pc = "update_open"
    /\ LET cache_info == generate_cache_info(proc[p].backend_id, RaceStencilId,
                                             proc[p].extra, modfile)
       IN  IF cache_info.raised
           THEN /\ Set(p, [proc[p] EXCEPT !.result = Raise, !.pc = "done"])
                /\ dirs' = GetBasePathEffect(dirs)
                /\ UNCHANGED recfile
           ELSE /\ dirs' = GetBasePathEffect(dirs)
                               \cup makedirs(os_path_dirname(RaceInfoPath(p)))
                /\ IF recfile[RaceInfoPath(p)].st = "noaccess"
                   THEN /\ Set(p, [proc[p] EXCEPT !.result = Raise,
                                                  !.pc = "done"])
                        /\ UNCHANGED recfile
                   ELSE /\ Set(p, [proc[p] EXCEPT
                                      !.wdata = pickle_dumps(cache_info.value),
                                      !.woff = 0, !.pc = "update_write"])
                        /\ recfile' = [recfile EXCEPT ![RaceInfoPath(p)] =
                                          RegularFile(<<>>)]
    /\ UNCHANGED modfile
    /\ UNCHANGED <<updated, vcall, vres, upcastVars>>

\* pickle.dump(cache_info, f) reaches the file one chunk at a time
UpdateWrite(p) ==
    /\ proc[p].pc = "update_write"
    /\ LET chunk == ChunkAt(proc[p].wdata, proc[p].woff, WriteChunk)
           end == proc[p].woff + Len(chunk) >= Len(proc[p].wdata)
       IN  /\ recfile' = [recfile EXCEPT ![RaceInfoPath(p)] =
                             RegularFile(WriteAt(@.data, proc[p].woff, chunk,
                                                 Tok("NUL")))]
           /\ Set(p, [proc[p] EXCEPT
                         !.woff = IF end THEN 0 ELSE @ + Len(chunk),
                         !.wdata = IF end THEN <<>> ELSE @,
                         !.pc = IF ~end THEN "update_write"
                                ELSE IF proc[p].req = "generate" THEN "gen_load"
                                ELSE "done"])
    /\ UNCHANGED <<dirs, modfile>>
    /\ UNCHANGED <<updated, vcall, vres, upcastVars>>

\* _generate_module ends with _load of the module it generated
GenerateLoad(p) ==
    /\ proc[p].pc = "gen_load"
    /\ Set(p, [proc[p] EXCEPT !.loaded = modfile[RaceModulePath(p)],
                              !.pc = "done"])
    /\ UNCHANGED <<dirs, modfile, recfile>>
    /\ UNCHANGED <<updated, vcall, vres, upcastVars>>

\* the cache a process finds: empty, or an entry a finished generation left
InitRace ==
    /\ updated = [p \in InfoPaths |-> NoUpdate]
    /\ vcall = NoCall
    /\ vres = NoResult
    /\ proc = [p \in Procs |-> IdleProc]
    /\ root = NoNode
    /\ out1 = NoNode
    /\ out2 = NoNode
    /\ passes = 0
    /\ \/ /\ dirs = {}
          /\ modfile = [p \in ModulePaths |-> AbsentFile]
          /\ recfile = [p \in InfoPaths |-> AbsentFile]
       \/ \E b \in BackendIds, s \in Sources :
             /\ dirs = {cache_root} \cup makedirs(os_path_dirname(
                                                InfoPath[b, RaceStencilId]))
             /\ modfile = [p \in ModulePaths |->
                              IF p = ModulePath[b, RaceStencilId]
                              THEN RegularFile(s) ELSE AbsentFile]
             /\ recfile = [p \in InfoPaths |->
                              IF p = InfoPath[b, RaceStencilId]
                              THEN RegularFile(pickle_dumps(
                                       StandardInfo(b, RaceStencilId, s)))
                              ELSE AbsentFile]

NextRace ==
    \/ \E p \in Procs, b \in BackendIds : LoadStart(p, b)
    \/ \E p \in Procs : CheckRead(p)
    \/ \E p \in Procs : CheckValidate(p)
    \/ \E p \in Procs : LoadModule(p)
    \/ \E p \in Procs, b \in BackendIds, s \in Sources : GenerateStart(p, b, s)
    \/ \E p \in Procs : GenerateWrite(p)
    \/ \E p \in Procs : UpdateOpen(p)
    \/ \E p \in Procs : UpdateWrite(p)
    \/ \E p \in Procs : GenerateLoad(p)

\* Processes that share one cache root, each running one load or one
\* generate, with their file reads and writes interleaved.
SpecRace == InitRace /\ [][NextRace]_vars

\* ------------------------------------------- update_cache and I/O errors

\* update_cache(backend_id, stencil_id, extra_cache_info) is called
UpdateStart(p, backend_id, extra_cache_info) ==
    /\ proc[p].pc = "idle"
    /\ Set(p, [IdleProc EXCEPT !.req = "update", !.backend_id = backend_id,
                               !.extra = extra_cache_info,
                               !.before = recfile[InfoPath[backend_id,
                                                           RaceStencilId]],
                               !.pc = "update_open"])
    /\ UNCHANGED <<dirs, modfile, recfile>>
    /\ UNCHANGED <<updated, vcall, vres, upcastVars>>

\* a write of pickle.dump fails (the disk is full, the file system has gone):
\* the error ends update_cache, the record file keeps what was written so far
UpdateWriteFails(p) ==
    /\ proc[p].pc = "update_write"
    /\ proc[p].req = "update"
    /\ Set(p, [proc[p] EXCEPT !.result = Raise, !.pc = "done"])
    /\ UNCHANGED <<dirs, modfile, recfile>>
    /\ UNCHANGED <<updated, vcall, vres, upcastVars>>

\* the extra_cache_info of the updates of SpecUpdate
UpdateExtras ==
    { EmptyDict,
      [EmptyDict EXCEPT !["pyext_module_name"] = PyStr(<<"x">>)],
      [EmptyDict EXCEPT !["module_shash"] = shash(Source(1))] }

\* the records earlier updates may have left
EarlierRecords ==
    { RegularFile(pickle_dumps(DictMerge(StandardInfo(b, RaceStencilId, s), e))) :
        b \in BackendIds, s \in Sources, e \in UpdateExtras }

\* a module file that is missing, unreadable or generated, beside a record
\* file that is missing, unreadable or left by an earlier update
InitUpdate ==
    /\ updated = [p \in InfoPaths |-> NoUpdate]
    /\ vcall = NoCall
    /\ vres = NoResult
    /\ proc = [p \in Procs |-> IdleProc]
    /\ root = NoNode
    /\ out1 = NoNode
    /\ out2 = NoNode
    /\ passes = 0
    /\ \E m \in {AbsentFile, NoAccessFile} \cup {RegularFile(s) : s \in Sources},
          r \in {AbsentFile, NoAccessFile} \cup EarlierRecords :
          LET b == CHOOSE x \in BackendIds : TRUE IN
             /\ dirs = IF m = AbsentFile /\ r = AbsentFile THEN {}
                       ELSE {cache_root} \cup makedirs(os_path_dirname(
                                                InfoPath[b, RaceStencilId]))
             /\ modfile = [p \in ModulePaths |->
                              IF p = ModulePath[b, RaceStencilId]
                              THEN m ELSE AbsentFile]
             /\ recfile = [p \in InfoPaths |->
                              IF p = InfoPath[b, RaceStencilId]
                              THEN r ELSE AbsentFile]

NextUpdate ==
    \/ \E p \in Procs, b \in BackendIds, e \in UpdateExtras : UpdateStart(p, b, e)
    \/ \E p \in Procs : UpdateOpen(p)
    \/ \E p \in Procs : UpdateWrite(p)
    \/ \E p \in Procs : UpdateWriteFails(p)
    \/ \E p \in Procs, b \in BackendIds : LoadStart(p, b)
    \/ \E p \in Procs : CheckRead(p)
    \/ \E p \in Procs : CheckValidate(p)
    \/ \E p \in Procs : LoadModule(p)

\* Calls of update_cache that may fail at each of their file operations, and
\* calls of load, each process running one of them.
SpecUpdate == InitUpdate /\ [][NextUpdate]_vars

\* ------------------------------------------------------- running the pass

InitUpcast ==
    /\ root \in Nodes
    /\ out1 = NoNode
    /\ out2 = NoNode
    /\ passes = 0
    /\ dirs = {}
    /\ modfile = [p \in ModulePaths |-> AbsentFile]
    /\ recfile = [p \in InfoPaths |-> AbsentFile]
    /\ updated = [p \in InfoPaths |-> NoUpdate]
    /\ vcall = NoCall
    /\ vres = NoResult
    /\ proc = [p \in Procs |-> IdleProc]

\* upcast(root)
Upcast ==
    /\ passes = 0
    /\ out1' = upcast(root)
    /\ passes' = 1
    /\ UNCHANGED <<root, out2>>
    /\ UNCHANGED <<dirs, modfile, recfile, updated, vcall, vres, proc>>

\* upcast(upcast(root))
UpcastAgain ==
    /\ passes = 1
    /\ out2' = upcast(out1)
    /\ passes' = 2
    /\ UNCHANGED <<root, out1>>
    /\ UNCHANGED <<dirs, modfile, recfile, updated, vcall, vres, proc>>

NextUpcast ==
    \/ Upcast
    \/ UpcastAgain

SpecUpcast == InitUpcast /\ [][NextUpcast]_vars

\* ---------------------------------------------------------------- claims

\* what check_cache returns for the input of the last update at record path p
CheckOfUpdate(p) ==
    check_cache(updated[p].backend_id, updated[p].stencil_id, recfile, modfile)

\* the module file of the last update at p still holds the source it had
SourceUnchanged(p) ==
    modfile[ModulePath[updated[p].backend_id, updated[p].stencil_id]]
        = RegularFile(updated[p].source)

\* the extra info of the last update at p sets no standard key to a value
\* other than the standard one
NoShadowing(p) ==
    \A k \in StdKeys :
        updated[p].extra[k] \in
            {Absent, StandardInfo(updated[p].backend_id, updated[p].stencil_id,
                                  updated[p].source)[k]}

\* C1 as stated: after update_cache(b, id, extra) on a module file with
\* content S, for any extra, check_cache(b, id) is true while the content is S.
C1_RoundTripAnyExtra ==
    \A p \in InfoPaths :
        (updated[p].valid /\ SourceUnchanged(p)) => CheckOfUpdate(p) = Ret(TRUE)

\* C1 amended: after update_cache(b, id, extra) on a module file with content
\* S, where extra sets none of backend, stencil_name, stencil_version,
\* module_shash to a value other than the standard one, check_cache(b, id) is
\* true while the content is S.
C1_RoundTrip ==
    \A p \in InfoPaths :
        (updated[p].valid /\ SourceUnchanged(p) /\ NoShadowing(p))
            => CheckOfUpdate(p) = Ret(TRUE)

\* an update whose extra info holds a standard key (with the standard value)
\* has completed, the module is as it was, and check_cache is true
C1_Witness ==
    \E p \in InfoPaths :
        /\ updated[p].valid /\ SourceUnchanged(p) /\ NoShadowing(p)
        /\ DictKeys(updated[p].extra) \cap StdKeys # {}
        /\ CheckOfUpdate(p) = Ret(TRUE)

\* C2 as stated: after update_cache(b, id, extra) on a module file with
\* content S, for any extra, check_cache(b, id) is false once the module file
\* holds another content or is gone.
C2_TamperAnyExtra ==
    \A p \in InfoPaths :
        (updated[p].valid /\ ~SourceUnchanged(p)) => CheckOfUpdate(p) = Ret(FALSE)

\* C2 amended: the same, for an extra that does not set module_shash to the
\* hash of a content other than S.
C2_Tamper ==
    \A p \in InfoPaths :
        ( /\ updated[p].valid
          /\ ~SourceUnchanged(p)
          /\ updated[p].extra["module_shash"] \in {Absent, shash(updated[p].source)} )
            => CheckOfUpdate(p) = Ret(FALSE)

\* after an update the module file was rewritten with another source
C2_Witness ==
    \E p \in InfoPaths :
        /\ updated[p].valid
        /\ updated[p].source \in Sources
        /\ updated[p].extra["module_shash"] = Absent
        /\ LET f == modfile[ModulePath[updated[p].backend_id, updated[p].stencil_id]]
           IN  f.st = "file" /\ f.data \in Sources /\ f.data # updated[p].source
        /\ CheckOfUpdate(p) = Ret(FALSE)

\* the record file holds no complete pickle of a dict
Malformed(f) ==
    \/ f.st # "file"
    \/ \A i \in 1..Len(f.data) : f.data[i].op # "STOP"
    \/ f.data = PickledList

\* C3: validate_cache_info never raises, and returns true exactly when the
\* module file can be read and the record's backend, stencil_name,
\* stencil_version and module_shash equal the backend id, the qualified name,
\* the version and the hash of the module file's text; the record's other
\* keys do not matter.
C3_Validate ==
    vres.done =>
        LET f == modfile[ModulePath[vcall.backend_id, vcall.stencil_id]]
            d == vcall.cache_info
        IN  /\ ~vres.raised
            /\ vres.value =
                  ( /\ f.st = "file"
                    /\ d["backend"] = PyStr(vcall.backend_id)
                    /\ d["stencil_name"] = PyStr(vcall.stencil_id.qualified_name)
                    /\ d["stencil_version"] = PyStr(vcall.stencil_id.version)
                    /\ d["module_shash"] = shash(f.data) )

\* validate_cache_info returned true for a record that also holds a key of
\* the backend's own
C3_Witness ==
    /\ vres.done /\ vres.value
    /\ vcall.cache_info["pyext_module_name"] # Absent

\* C4: check_cache never raises, and it returns false whenever the record
\* file is missing, unreadable, empty, truncated, or a pickle of a value that
\* is no dict.
C4_CheckFailsClosed ==
    \A b \in BackendIds, id \in StencilIds :
        LET r == check_cache(b, id, recfile, modfile)
        IN  /\ ~r.raised
            /\ Malformed(recfile[InfoPath[b, id]]) => ~r.value

\* a record file truncated after its first item, beside a readable module
C4_Witness ==
    \E b \in BackendIds, id \in StencilIds :
        /\ recfile[InfoPath[b, id]].st = "file"
        /\ Len(recfile[InfoPath[b, id]].data) = 3
        /\ Malformed(recfile[InfoPath[b, id]])
        /\ modfile[ModulePath[b, id]].st = "file"
        /\ check_cache(b, id, recfile, modfile) = Ret(FALSE)

\* process p has finished a load
LoadDone(p) == proc[p].req = "load" /\ proc[p].pc = "done"

\* C5: when load got true from check_cache and then loaded the module file,
\* the content it loaded is the content whose hash matched during the check.
C5_NoStaleLoad ==
    \A p \in Procs :
        (LoadDone(p) /\ proc[p].result = Ret(TRUE))
            => proc[p].loaded = proc[p].checked

\* C6: a check_cache that interleaves with another process's update_cache
\* never raises, returns false when the record it read is truncated or
\* partially written, and returns true only if the record it read names its
\* backend id, qualified name and version and the hash of the module file it
\* read.
C6_ReaderRacingWriter ==
    \A p \in Procs :
        LoadDone(p) =>
            /\ ~proc[p].result.raised
            /\ ~HasStop(proc[p].rbuf) => ~proc[p].result.value
            /\ proc[p].result.value =>
                  LET cache_info == pickle_loads(proc[p].rbuf)
                  IN  /\ ~cache_info.raised
                      /\ cache_info.value.isdict
                      /\ proc[p].checked.st = "file"
                      /\ \A k \in StdKeys :
                            cache_info.value.d[k] =
                                StandardInfo(proc[p].backend_id, RaceStencilId,
                                             proc[p].checked.data)[k]

\* a check_cache read the first tokens of a record another process was still
\* writing, and returned false
C6_Witness ==
    \E p \in Procs, q \in Procs :
        /\ LoadDone(p)
        /\ proc[p].rbuf # <<>> /\ ~HasStop(proc[p].rbuf)
        /\ proc[p].result = Ret(FALSE)
        /\ proc[q].req = "generate"

\* the child nodes of a node, in field order
Children(n) ==
    CASE n.kind = "Cast" -> <<n.expr>>
      [] n.kind = "BinaryOp" -> <<n.left, n.right>>
      [] n.kind = "TernaryOp" -> <<n.cond, n.true_expr, n.false_expr>>
      [] n.kind = "NativeFuncCall" -> n.args
      [] n.kind = "ParAssignStmt" -> <<n.left, n.right>>
      [] OTHER -> <<>>

RECURSIVE CastCount(_)
RECURSIVE CastCountAll(_)

\* the number of Cast nodes in a list of trees
CastCountAll(nodes) ==
    IF nodes = <<>> THEN 0
    ELSE CastCount(Head(nodes)) + CastCountAll(Tail(nodes))

\* the number of Cast nodes in a tree
CastCount(n) ==
    (IF n.kind = "Cast" THEN 1 ELSE 0) + CastCountAll(Children(n))

\* C7: upcast idempotence.  For every dtype-resolved tree, the second pass
\* returns a tree structurally equal to the first pass's and inserts no Cast
\* node.
C7_Idempotence ==
    passes = 2 =>
        /\ dict(out2) = dict(out1)
        /\ CastCount(out2) = CastCount(out1)

\* both passes ran over an assignment of a binary operation, and the first
\* pass inserted a Cast below the operation and one around it
C7_Witness ==
    /\ passes = 2
    /\ root.kind = "ParAssignStmt"
    /\ root.right.kind = "BinaryOp"
    /\ CastCount(root) = 0
    /\ CastCount(out1) = 2
    /\ out1.right.kind = "Cast"

\* the operand o of the output is the rewritten operand e promoted to T:
\* wrapped in Cast(dtype=T) when its dtype differs from T, e with no Cast
\* around it otherwise
Promoted(T, e, o) ==
    IF e.dtype # T
    THEN o.kind = "Cast" /\ o.dtype = T /\ dict(o.expr) = dict(e)
    ELSE dict(o) = dict(e)

\* C8: binary promotion.  With l and r the rewritten operands of a binary
\* operation and T the larger of their dtypes, the output is a binary
\* operation whose operands are l and r, each wrapped in Cast(dtype=T) if its
\* dtype differs from T and left as it is if not.
C8_BinaryPromotion ==
    (passes >= 1 /\ root.kind = "BinaryOp") =>
        LET l == visit(root.left)
            r == visit(root.right)
            T == Max({l.dtype, r.dtype})
        IN  /\ out1.kind = "BinaryOp"
            /\ Promoted(T, l, out1.left)
            /\ Promoted(T, r, out1.right)
            /\ (root.left = FieldAccess(<<1>>, INT32)
                    /\ root.right = FieldAccess(<<2>>, FLOAT64))
                => /\ out1.left.kind = "Cast"
                   /\ out1.left.dtype = FLOAT64
                   /\ out1.left.expr = root.left
                   /\ out1.right = root.right

\* a binary operation whose left operand is itself a binary operation that
\* the pass rewrote, and then wrapped in a Cast to the right operand's dtype
C8_Witness ==
    /\ passes >= 1
    /\ root.kind = "BinaryOp"
    /\ root.left.kind = "BinaryOp"
    /\ out1.left.kind = "Cast"
    /\ out1.left.dtype = FLOAT64
    /\ out1.left.expr.kind = "BinaryOp"
    /\ out1.left.expr.left.kind = "Cast"
    /\ out1.right = root.right

\* C9: assignment asymmetry.  The output of a parallel assignment keeps the
\* input's left side, with no Cast around it, and its right side is the
\* rewritten right side, wrapped in Cast(dtype=dtype(left)) exactly when the
\* right side's dtype differs from the left side's, the wider dtype included.
C9_AssignmentAsymmetry ==
    (passes >= 1 /\ root.kind = "ParAssignStmt") =>
        LET right == visit(root.right)
        IN  /\ out1.kind = "ParAssignStmt"
            /\ out1.left = root.left
            /\ IF root.right.dtype # root.left.dtype
               THEN /\ out1.right.kind = "Cast"
                    /\ out1.right.dtype = root.left.dtype
                    /\ dict(out1.right.expr) = dict(right)
               ELSE /\ dict(out1.right) = dict(right)
                    /\ out1.right.kind = root.right.kind

\* an assignment of a float64 operation to a float32 field: the right side
\* got a Cast to float32
C9_Witness ==
    /\ passes >= 1
    /\ root.kind = "ParAssignStmt"
    /\ root.left.dtype = FLOAT32
    /\ root.right.kind = "BinaryOp"
    /\ root.right.dtype = FLOAT64
    /\ out1.right.kind = "Cast"
    /\ out1.right.dtype = FLOAT32
    /\ out1.left = root.left

RECURSIVE NeedsNoCoercion(_)

\* at every node of the tree the operands a coercion rule looks at already
\* have one dtype
NeedsNoCoercion(n) ==
    /\ n.kind = "BinaryOp" => n.left.dtype = n.right.dtype
    /\ n.kind = "TernaryOp" => n.true_expr.dtype = n.false_expr.dtype
    /\ n.kind = "NativeFuncCall" =>
          \A i, j \in DOMAIN n.args : n.args[i].dtype = n.args[j].dtype
    /\ n.kind = "ParAssignStmt" => n.left.dtype = n.right.dtype
    /\ \A i \in DOMAIN Children(n) : NeedsNoCoercion(Children(n)[i])

\* C10: minimal insertion with identity.  For a binary operation whose
\* operands have one dtype and whose operand subtrees need no coercion, the
\* pass returns the object it was given, with no Cast inserted.
C10_MinimalInsertion ==
    (/\ passes >= 1
     /\ root.kind = "BinaryOp"
     /\ root.left.dtype = root.right.dtype
     /\ NeedsNoCoercion(root.left)
     /\ NeedsNoCoercion(root.right))
        => /\ out1.oid = root.oid
           /\ out1 = root
           /\ CastCount(out1) = CastCount(root)

\* such a binary operation, over a call and a Cast of the input, went
\* through the pass
C10_Witness ==
    /\ passes >= 1
    /\ root.kind = "BinaryOp"
    /\ root.left.kind = "NativeFuncCall"
    /\ root.right.kind = "Cast"
    /\ NeedsNoCoercion(root)
    /\ out1 = root

\* C11: upcast postcondition.  In the tree upcast returns, at every depth, the
\* operands of a binary node, the branches of a ternary node and the arguments
\* of a call have one dtype, and the right side of a parallel assignment has
\* the dtype of the left side.
C11_Postcondition ==
    passes >= 1 => NeedsNoCoercion(out1)

\* a call over a binary operation, both with operands of different dtypes,
\* went through the pass, which inserted a Cast at each of the two depths
C11_Witness ==
    /\ passes >= 1
    /\ root.kind = "NativeFuncCall"
    /\ Len(root.args) = 2
    /\ root.args[1].kind = "BinaryOp"
    /\ root.args[1].left.dtype # root.args[1].right.dtype
    /\ root.args[1].dtype # root.args[2].dtype
    /\ out1.args[1].kind = "Cast"
    /\ CastCount(out1) = 2
    /\ NeedsNoCoercion(out1)

\* id2 has the qualified name of id and another version
SameNameOtherVersion(id, id2) ==
    id2.qualified_name = id.qualified_name /\ id2.version # id.version

\* no record on disk comes from an update for id2
NoUpdateFor(id2) ==
    \A p \in InfoPaths : ~(updated[p].valid /\ updated[p].stencil_id = id2)

UpdateDone(p) == proc[p].req = "update" /\ proc[p].pc = "done"

\* no process but p calls update_cache
OnlyUpdater(p) == \A q \in Procs \ {p} : proc[q].req # "update"

\* the record update_cache(p's arguments) writes for the module file as it is
NewRecord(p) ==
    RegularFile(pickle_dumps(
        DictMerge(StandardInfo(proc[p].backend_id, RaceStencilId,
                               modfile[RaceModulePath(p)].data),
                  proc[p].extra)))

\* C13: update_cache ends with the error when the module file cannot be read
\* or the record file cannot be opened, and an update_cache that ended
\* without an error has written the whole record; when the module file cannot
\* be read the record file is as it was before the call; and after a failed
\* update_cache a check_cache does not raise and is true only if the stored
\* record holds the hash of the module file.
C13_UpdateErrors ==
    \A p \in Procs :
        UpdateDone(p) =>
            /\ modfile[RaceModulePath(p)].st # "file" => proc[p].result = Raise
            /\ proc[p].before.st = "noaccess" => proc[p].result = Raise
            /\ (~proc[p].result.raised /\ OnlyUpdater(p))
                  => recfile[RaceInfoPath(p)] = NewRecord(p)
            /\ (modfile[RaceModulePath(p)].st # "file" /\ OnlyUpdater(p))
                  => recfile[RaceInfoPath(p)] = proc[p].before
            /\ proc[p].result.raised =>
                  /\ \A b \in BackendIds :
                        LET r == check_cache(b, RaceStencilId, recfile, modfile)
                            d == pickle_loads(recfile[InfoPath[b, RaceStencilId]].data)
                        IN  /\ ~r.raised
                            /\ r.value =>
                                  /\ ~d.raised
                                  /\ d.value.d["module_shash"] =
                                        shash(modfile[ModulePath[b, RaceStencilId]].data)
                  /\ \A q \in Procs :
                        (LoadDone(q) /\ proc[q].result.value) =>
                            pickle_loads(proc[q].rbuf).value.d["module_shash"]
                                = shash(proc[q].checked.data)

\* an update_cache over a record that matched the module file failed in the
\* middle of its write, and a load that read what it left got false
C13_Witness ==
    \E p \in Procs, q \in Procs :
        /\ UpdateDone(p)
        /\ proc[p].result = Raise
        /\ proc[p].before \in EarlierRecords
        /\ check_cache(proc[p].backend_id, RaceStencilId,
                       [recfile EXCEPT ![RaceInfoPath(p)] = proc[p].before],
                       modfile) = Ret(TRUE)
        /\ recfile[RaceInfoPath(p)].st = "file"
        /\ Len(recfile[RaceInfoPath(p)].data) = WriteChunk
        /\ LoadDone(q)
        /\ proc[q].rbuf = recfile[RaceInfoPath(p)].data
        /\ proc[q].result = Ret(FALSE)

\* C14: call-site joint promotion.  With a1..an the rewritten arguments of a
\* native function call and T the largest of their dtypes, the output is a
\* call with n arguments, the i-th being ai wrapped in Cast(dtype=T) if its
\* dtype differs from T and ai as it is if not; arguments of dtypes
\* (int32, int32, float64) give Casts to float64 around the first two only.
C14_CallPromotion ==
    (passes >= 1 /\ root.kind = "NativeFuncCall") =>
        LET args == [i \in DOMAIN root.args |-> visit(root.args[i])]
            T == Max({args[i].dtype : i \in DOMAIN args})
        IN  /\ out1.kind = "NativeFuncCall"
            /\ Len(out1.args) = Len(root.args)
            /\ \A i \in DOMAIN args : Promoted(T, args[i], out1.args[i])
            /\ root.args = <<FieldAccess(<<1>>, INT32), FieldAccess(<<2>>, INT32),
                             FieldAccess(<<3>>, FLOAT64)>>
                => /\ \A i \in {1, 2} :
                        /\ out1.args[i].kind = "Cast"
                        /\ out1.args[i].dtype = FLOAT64
                        /\ out1.args[i].expr = root.args[i]
                   /\ out1.args[3] = root.args[3]

\* a call whose widest argument stands in the middle, between an int32 field
\* and a float32 operation: both got a Cast to float64, each in its place
C14_Witness ==
    /\ passes >= 1
    /\ root.kind = "NativeFuncCall"
    /\ Len(root.args) = 3
    /\ root.args[1].dtype = INT32
    /\ root.args[2].dtype = FLOAT64
    /\ root.args[3].dtype = FLOAT32
    /\ out1.args[1].kind = "Cast" /\ out1.args[1].expr = root.args[1]
    /\ out1.args[2] = root.args[2]
    /\ out1.args[3].kind = "Cast" /\ out1.args[3].dtype = FLOAT64

\* C15: ternary rule.  The output of a conditional operation has the
\* rewritten branches promoted to the larger of the two branches' dtypes, and
\* the rewritten condition with no Cast around it and its dtype as it was,
\* whatever that dtype is.
C15_TernaryRule ==
    (passes >= 1 /\ root.kind = "TernaryOp") =>
        LET t == visit(root.true_expr)
            f == visit(root.false_expr)
            T == Max({t.dtype, f.dtype})
        IN  /\ out1.kind = "TernaryOp"
            /\ Promoted(T, t, out1.true_expr)
            /\ Promoted(T, f, out1.false_expr)
            /\ {out1.true_expr.dtype, out1.false_expr.dtype} = {T}
            /\ dict(out1.cond) = dict(visit(root.cond))
            /\ out1.cond.kind = root.cond.kind
            /\ out1.cond.dtype = root.cond.dtype

\* a conditional whose condition has the widest dtype of the three and is a
\* binary operation the pass rewrote: the int32 branch got a Cast to the
\* float32 of the other branch, the condition none
C15_Witness ==
    /\ passes >= 1
    /\ root.kind = "TernaryOp"
    /\ root.cond.kind = "BinaryOp"
    /\ root.cond.dtype = FLOAT64
    /\ root.true_expr.dtype = INT32
    /\ root.false_expr.dtype = FLOAT32
    /\ out1.true_expr.kind = "Cast"
    /\ out1.true_expr.dtype = FLOAT32
    /\ out1.false_expr = root.false_expr
    /\ out1.cond.kind = "BinaryOp"
    /\ CastCount(out1.cond) = 1

\* the record file at path decodes to a dict
Decodes(path) ==
    /\ recfile[path].st = "file"
    /\ ~pickle_loads(recfile[path].data).raised
    /\ pickle_loads(recfile[path].data).value.isdict

\* the processes that have called update_cache
Updaters == {p \in Procs : proc[p].req = "update"}

\* C16: the record file is replaced as a whole.  An update_cache that has
\* ended without an error, with no other update_cache after it, has left
\* exactly the record it computed, and in every state, the steps of a write
\* and the state a failed write leaves included, a record file that decodes
\* holds the whole record of one update_cache: the one it held when a call
\* began, or the one a call computed.
C16_WholeRecord ==
    \A path \in InfoPaths :
        /\ \A p \in Updaters :
              ( /\ UpdateDone(p) /\ ~proc[p].result.raised
                /\ OnlyUpdater(p) /\ RaceInfoPath(p) = path )
                  => recfile[path] = NewRecord(p)
        /\ (Updaters # {} /\ Decodes(path)) =>
              \E p \in Updaters :
                  recfile[path] \in {proc[p].before, NewRecord(p)}

\* ---------------------------------------------------------------------
\* get_base_path step by step: the test for the cache folder, then its
\* creation, in processes that share one cache root

\* the calls of get_base_path one process makes
MaxCalls == 2

\* gt_utils.make_dir(path, is_cache=True): the directory is created when it
\* is absent, and a directory that exists already is no error
make_dir(path, ds) == [raised |-> FALSE, dirs |-> ds \cup {path}]

\* a process calls get_base_path(backend_id)
BasePathStart(p, backend_id) ==
    /\ proc[p].pc = "idle"
    /\ Set(p, [IdleProc EXCEPT !.req = "base_path", !.backend_id = backend_id,
                               !.calls = 1, !.pc = "bp_exists"])
    /\ UNCHANGED <<dirs, modfile, recfile>>
    /\ UNCHANGED <<updated, vcall, vres, upcastVars>>

\* the process calls get_base_path again with the same backend id
BasePathAgain(p) ==
    /\ proc[p].pc = "done"
    /\ proc[p].req = "base_path"
    /\ ~proc[p].result.raised
    /\ proc[p].calls < MaxCalls
    /\ Set(p, [proc[p] EXCEPT !.calls = @ + 1, !.first = proc[p].result.value,
                              !.made = FALSE, !.pc = "bp_exists"])
    /\ UNCHANGED <<dirs, modfile, recfile>>
    /\ UNCHANGED <<updated, vcall, vres, upcastVars>>

\* if not os.path.exists(cache_root): with the folder there, the path is
\* computed and returned
BasePathExists(p) ==
    /\ proc[p].pc = "bp_exists"
    /\ LET e == cache_root \in dirs
       IN  Set(p, [proc[p] EXCEPT
                     !.exists = e,
                     !.result = IF e THEN Ret(get_base_path(proc[p].backend_id))
                                ELSE @,
                     !.pc = IF e THEN "done" ELSE "bp_make"])
    /\ UNCHANGED <<dirs, modfile, recfile>>
    /\ UNCHANGED <<updated, vcall, vres, upcastVars>>

\* gt_utils.make_dir with a creation that fails on a directory that exists
BasePathMakeDir_Exclusive(p) ==
    /\ proc[p].pc = "bp_make"
    /\ LET r == make_dir(cache_root, dirs)
           clash == cache_root \in dirs
       IN  /\ dirs' = r.dirs
           /\ Set(p, [proc[p] EXCEPT
                        !.made = r.dirs # dirs,
                        !.result = IF clash THEN Raise
                                   ELSE Ret(get_base_path(proc[p].backend_id)),
                        !.pc = "done"])
    /\ UNCHANGED <<modfile, recfile>>
    /\ UNCHANGED <<updated, vcall, vres, upcastVars>>

\* gt_utils.make_dir(cache_root, is_cache=True), then the path is computed
\* and returned
BasePathMakeDir(p) ==
    /\ proc[p].pc = "bp_make"
    /\ LET r == make_dir(cache_root, dirs)
       IN  /\ dirs' = r.dirs
           /\ Set(p, [proc[p] EXCEPT
                        !.made = r.dirs # dirs,
                        !.result = IF r.raised THEN Raise
                                   ELSE Ret(get_base_path(proc[p].backend_id)),
                        !.pc = "done"])
    /\ UNCHANGED <<modfile, recfile>>
    /\ UNCHANGED <<updated, vcall, vres, upcastVars>>

\* a cache root that is absent, holds only the cache folder, or holds a
\* generated module in its package directory
InitDirs ==
    /\ updated = [p \in InfoPaths |-> NoUpdate]
    /\ vcall = NoCall
    /\ vres = NoResult
    /\ proc = [p \in Procs |-> IdleProc]
    /\ root = NoNode
    /\ out1 = NoNode
    /\ out2 = NoNode
    /\ passes = 0
    /\ recfile = [p \in InfoPaths |-> AbsentFile]
    /\ \E m \in {AbsentFile} \cup {RegularFile(s) : s \in Sources} :
          LET b == CHOOSE x \in BackendIds : TRUE IN
             /\ modfile = [p \in ModulePaths |->
                              IF p = ModulePath[b, RaceStencilId]
                              THEN m ELSE AbsentFile]
             /\ IF m = AbsentFile
                THEN dirs \in { {}, {cache_root} }
                ELSE dirs = {cache_root} \cup makedirs(os_path_dirname(
                                                ModulePath[b, RaceStencilId]))

NextDirs ==
    \/ \E p \in Procs, b \in BackendIds : BasePathStart(p, b)
    \/ \E p \in Procs : BasePathAgain(p)
    \/ \E p \in Procs : BasePathExists(p)
    \/ \E p \in Procs : BasePathMakeDir(p)
    \/ \E p \in Procs, b \in BackendIds, e \in UpdateExtras : UpdateStart(p, b, e)
    \/ \E p \in Procs : UpdateOpen(p)
    \/ \E p \in Procs : UpdateWrite(p)

\* Calls of get_base_path, with the test for the cache folder and its
\* creation as separate steps, beside calls of update_cache.
SpecDirs == InitDirs /\ [][NextDirs]_vars

\* a call of get_base_path by p has returned or raised
BasePathDone(p) == proc[p].req = "base_path" /\ proc[p].pc = "done"

\* C17: after a call of get_base_path has returned, the directory it returned
\* exists, and a second call has returned the same path and created nothing.
C17_BasePathCreated ==
    \A p \in Procs :
        BasePathDone(p) =>
            /\ ~proc[p].result.raised
            /\ proc[p].result.value \in dirs
            /\ proc[p].calls = 2 =>
                  /\ proc[p].result.value = proc[p].first
                  /\ ~proc[p].made

\* a call of update_cache by p has passed its directory creation
UpdatePastOpen(p) ==
    proc[p].req = "update" /\ proc[p].pc \in {"update_write", "done"}

option_definitions == {"o1"}

\* options.backend_opts of a call: known names only, an unknown name only,
\* a known and an unknown name
BackendOpts == { {"o1"}, {"zz"}, {"o1", "zz"} }

\* BaseBackend._check_options
_check_options(backend_opts) ==
    LET unknown_options == backend_opts \ option_definitions
    IN  IF unknown_options # {} THEN Raise ELSE Ret(TRUE)

\* BaseBackend.load(stencil_id, definition_func, options): without a stencil
\* id it returns None; with one, _check_options, then check_cache begins
LoadCall(p, backend_id, has_id, backend_opts) ==
    /\ proc[p].pc = "idle"
    /\ LET st == [IdleProc EXCEPT !.req = "load", !.backend_id = backend_id,
                                  !.options = backend_opts, !.has_id = has_id]
           f == recfile[InfoPath[backend_id, RaceStencilId]]
       IN  IF ~has_id
           THEN /\ Set(p, [st EXCEPT !.pc = "done"])
                /\ UNCHANGED dirs
           ELSE IF _check_options(backend_opts).raised
           THEN /\ Set(p, [st EXCEPT !.pc = "done", !.result = Raise])
                /\ UNCHANGED dirs
           ELSE /\ dirs' = GetBasePathEffect(dirs)
                /\ IF f.st # "file"
                   THEN Set(p, [st EXCEPT !.pc = "done",
                                   !.result = check_cache(backend_id,
                                                  RaceStencilId, recfile, modfile)])
                   ELSE Set(p, [st EXCEPT !.pc = "check_read"])
    /\ UNCHANGED <<modfile, recfile>>
    /\ UNCHANGED <<updated, vcall, vres, upcastVars>>

\* BaseBackend.generate(stencil_id, definition_ir, definition_func, options):
\* _check_options, then the transformed IR is rendered and _generate_module
\* opens the module file for writing
GenerateCall(p, backend_id, backend_opts, module_source) ==
    /\ proc[p].pc = "idle"
    /\ LET st == [IdleProc EXCEPT !.req = "generate",
                                  !.backend_id = backend_id,
                                  !.options = backend_opts]
           file_name == ModulePath[backend_id, RaceStencilId]
       IN  IF _check_options(backend_opts).raised
           THEN /\ Set(p, [st EXCEPT !.pc = "done", !.result = Raise])
                /\ UNCHANGED <<dirs, modfile>>
           ELSE /\ dirs' = GetBasePathEffect(dirs)
                               \cup makedirs(os_path_dirname(file_name))
                /\ modfile' = [modfile EXCEPT ![file_name] = RegularFile(<<>>)]
                /\ Set(p, [st EXCEPT !.source = module_source,
                                     !.pc = "gen_write"])
    /\ UNCHANGED recfile
    /\ UNCHANGED <<updated, vcall, vres, upcastVars>>

NextOptions ==
    \/ \E p \in Procs, b \in BackendIds, i \in BOOLEAN, o \in BackendOpts :
           LoadCall(p, b, i, o)
    \/ \E p \in Procs, b \in BackendIds, o \in BackendOpts, s \in Sources :
           GenerateCall(p, b, o, s)
    \/ \E p \in Procs : CheckRead(p)
    \/ \E p \in Procs : CheckValidate(p)
    \/ \E p \in Procs : LoadModule(p)
    \/ \E p \in Procs : GenerateWrite(p)
    \/ \E p \in Procs : UpdateOpen(p)
    \/ \E p \in Procs : UpdateWrite(p)
    \/ \E p \in Procs : GenerateLoad(p)

\* Processes that share one cache root, each calling load or generate with
\* build options.
SpecOptions == InitRace /\ [][NextOptions]_vars

\* p has called load or generate with an option name that is not defined
UnknownOptionCall(p) ==
    /\ proc[p].req \in {"load", "generate"}
    /\ proc[p].options \ option_definitions # {}

\* p has read no record, loaded no module and written nothing
NothingDone(p) ==
    /\ proc[p].rbuf = <<>> /\ proc[p].roff = 0
    /\ proc[p].wdata = <<>> /\ proc[p].woff = 0
    /\ proc[p].source = <<>>
    /\ proc[p].checked = AbsentFile /\ proc[p].loaded = AbsentFile

\* C19: every call of load or generate with an unknown backend option has
\* raised, without a cache lookup, a module-file write or a record write.
C19_UnknownOptions ==
    \A p \in Procs :
        UnknownOptionCall(p) =>
            /\ proc[p].pc = "done"
            /\ proc[p].result.raised
            /\ NothingDone(p)

\* the step is one of process p
StepOf(p) == proc'[p] # proc[p]

\* the step leaves every module file but the one at path as it was
OnlyModuleAt(path) ==
    \A q \in ModulePaths \ {path} : modfile'[q] = modfile[q]

\* the step leaves every record file but the one at path as it was
OnlyRecordAt(path) ==
    \A q \in InfoPaths \ {path} : recfile'[q] = recfile[q]

\* C20: file ownership.  Every step of a load (check_cache with its
\* validation, and the import of the module) leaves the record files and
\* the module files as they were; every step of update_cache leaves the
\* module files as they were and changes no record file but its own; and a
\* step that changes a module file is a step of _generate_module writing its
\* own module file, which changes no record file.
C20_FileOwnership ==
    [][ /\ \A p \in Procs :
              /\ (StepOf(p) /\ proc'[p].req = "load") =>
                    /\ modfile' = modfile
                    /\ recfile' = recfile
              /\ (StepOf(p) /\ proc[p].pc \in {"update_open", "update_write"}) =>
                    /\ modfile' = modfile
                    /\ OnlyRecordAt(RaceInfoPath(p))
        /\ modfile' # modfile =>
              \E p \in Procs :
                  /\ StepOf(p)
                  /\ proc'[p].req = "generate"
                  /\ proc[p].pc \in {"idle", "gen_write"}
                  /\ OnlyModuleAt(ModulePath[proc'[p].backend_id, RaceStencilId])
                  /\ recfile' = recfile
      ]_vars

\* one process has generated a module and recorded it, the other has
\* checked the entry, found it valid and loaded the module
C20_Witness ==
    \E p, q \in Procs :
        /\ proc[p].req = "generate" /\ proc[p].pc = "done"
        /\ modfile[RaceModulePath(p)] = RegularFile(proc[p].source)
        /\ recfile[RaceInfoPath(p)].st = "file"
        /\ proc[q].req = "load" /\ proc[q].pc = "done"
        /\ ~proc[q].result.raised /\ proc[q].result.value
        /\ proc[q].loaded = modfile[RaceModulePath(q)]

\* a step of a load by p keeps the order of BaseBackend.load: check_cache
\* first, _load only after check_cache returned True in this call, and no
\* step of the generation path
LoadOrder(p) ==
    /\ proc[p].pc = "idle" => proc'[p].pc \in {"check_read", "done"}
    /\ proc'[p].pc = "load_module" =>
          /\ proc[p].pc = "check_validate"
          /\ proc'[p].result = Ret(TRUE)
    /\ proc'[p].loaded # proc[p].loaded =>
          /\ proc[p].pc = "load_module"
          /\ proc[p].result = Ret(TRUE)
    /\ proc'[p].pc \notin {"gen_write", "update_open", "update_write", "gen_load"}
    /\ proc'[p].source = <<>>
    /\ modfile' = modfile /\ recfile' = recfile

\* a step of a generation by p keeps the order of _generate_module: the
\* module file is written to its end, then update_cache runs to its end,
\* then _load
GenerateOrder(p) ==
    /\ proc[p].pc = "idle" => proc'[p].pc = "gen_write"
    /\ modfile' # modfile => proc[p].pc \in {"idle", "gen_write"}
    /\ (proc'[p].pc = "update_open" /\ proc[p].pc # "update_open") =>
          /\ proc[p].pc = "gen_write"
          /\ proc[p].woff + 1 = Len(proc[p].source)
    /\ recfile' # recfile => proc[p].pc \in {"update_open", "update_write"}
    /\ proc'[p].pc = "update_write" =>
          proc[p].pc \in {"update_open", "update_write"}
    /\ proc'[p].pc = "gen_load" =>
          /\ proc[p].pc = "update_write"
          /\ proc[p].woff + WriteChunk >= Len(proc[p].wdata)
    /\ proc'[p].loaded # proc[p].loaded => proc[p].pc = "gen_load"

\* p is the only process that generates
OnlyGenerator(p) ==
    /\ proc[p].req = "generate"
    /\ \A q \in Procs \ {p} : proc[q].req # "generate"

\* with p past update_cache and no other generation, the record names the
\* whole module source p wrote, and that is what p loads
GeneratedEntry(p) ==
    (OnlyGenerator(p) /\ proc[p].pc \in {"gen_load", "done"}) =>
        /\ modfile[RaceModulePath(p)] = RegularFile(proc[p].source)
        /\ recfile[RaceInfoPath(p)] =
              RegularFile(pickle_dumps(StandardInfo(proc[p].backend_id,
                                                    RaceStencilId,
                                                    proc[p].source)))
        /\ proc[p].pc = "done" => proc[p].loaded = RegularFile(proc[p].source)

\* C21: ordering of a compilation request.  load consults check_cache first
\* and loads the module only after check_cache returned True in that call,
\* with no step of the generator; _generate_module writes the module source
\* to its end before update_cache starts, update_cache ends before the module
\* is loaded, and the record a lone generation leaves names the whole source.
C21_RequestOrder ==
    [][ /\ \A p \in Procs :
              /\ (StepOf(p) /\ proc'[p].req = "load") => LoadOrder(p)
              /\ (StepOf(p) /\ proc'[p].req = "generate") => GenerateOrder(p)
        /\ \A p \in Procs : GeneratedEntry(p) /\ GeneratedEntry(p)'
      ]_vars

\* a generation has run to its end beside a load that missed, and a load has
\* hit the entry and loaded the module
C21_Witness ==
    \E p, q \in Procs :
        /\ OnlyGenerator(p) /\ proc[p].pc = "done"
        /\ proc[p].loaded = RegularFile(proc[p].source)
        /\ proc[q].req = "load" /\ proc[q].pc = "done"
        /\ proc[q].result = Ret(TRUE)
        /\ proc[q].loaded = RegularFile(proc[p].source)

\* the extra_cache_info of the updates of SpecCollide: none, and keys that
\* shadow the backend and the version of the record
CollideExtras ==
    { EmptyDict,
      [EmptyDict EXCEPT !["backend"] = PyStr(<<"d", "x">>)],
      [EmptyDict EXCEPT !["stencil_version"] = PyStr(<<"b", "_", "_", "c">>)] }

NextCollide ==
    \/ \E b \in BackendIds, id \in StencilIds, e \in CollideExtras :
           UpdateCache(b, id, e)
    \/ \E b \in BackendIds, id \in StencilIds : CheckCache(b, id)
    \/ \E b \in BackendIds, id \in StencilIds, s \in Sources :
           WriteModule(b, id, s)
    \/ \E p \in InfoPaths : TamperRecord(p)

\* update_cache, check_cache and the generation step's write of the module
\* for pairs that share their paths, with record files also changing outside.
SpecCollide == InitCache /\ [][NextCollide]_vars

\* the (backend id, stencil id) pairs
IdPairs == BackendIds \X StencilIds

\* two distinct pairs with the same module path and the same record path
Collide(x, y) ==
    /\ x # y
    /\ ModulePath[x[1], x[2]] = ModulePath[y[1], y[2]]
    /\ InfoPath[x[1], x[2]] = InfoPath[y[1], y[2]]

\* check_cache is true for the pair x
Hit(x) == check_cache(x[1], x[2], recfile, modfile) = Ret(TRUE)

\* the record stored at the record path of x names the pair x
RecordNames(x) ==
    /\ Decodes(InfoPath[x[1], x[2]])
    /\ LET d == pickle_loads(recfile[InfoPath[x[1], x[2]]].data).value.d
       IN  /\ d["backend"] = PyStr(x[1])
           /\ d["stencil_name"] = PyStr(x[2].qualified_name)
           /\ d["stencil_version"] = PyStr(x[2].version)

\* C22: path collisions give no false hit.  In every state, of two distinct
\* pairs with the same module and record paths check_cache is true for at
\* most one, and a pair check_cache is true for is the pair the stored record
\* names.
C22_NoFalseHit ==
    \A x \in IdPairs :
        /\ Hit(x) => RecordNames(x)
        /\ \A y \in IdPairs : Collide(x, y) => ~(Hit(x) /\ Hit(y))

\* a stored record and module at paths that three pairs share, by the
\* stencil names and by the backend slug: check_cache is true for one pair
\* and false for the others
C22_Witness ==
    \E x \in IdPairs :
        /\ Hit(x)
        /\ \E y \in IdPairs :
              Collide(x, y) /\ y[1] = x[1] /\ ~Hit(y)
        /\ \E y \in IdPairs :
              Collide(x, y) /\ y[2] = x[2] /\ ~Hit(y)

\* the node is a Cast the pass allocated
Inserted(n) == n.kind = "Cast" /\ n.oid # <<>> /\ Head(n.oid) = CastTag

RECURSIVE Origin(_)
\* the input object a node of the output is, or is a copy of
Origin(oid) ==
    IF oid # <<>> /\ Head(oid) = CopyTag THEN Origin(Tail(oid)) ELSE oid

RECURSIVE Restore(_)
\* the output tree with every inserted Cast replaced by its expr child, and
\* every other node named by the input object it comes from
Restore(n) ==
    IF Inserted(n)
    THEN Restore(n.expr)
    ELSE [k \in DOMAIN n |->
            IF k = "oid" THEN Origin(n.oid)
            ELSE IF k = "args" THEN [i \in DOMAIN n.args |-> Restore(n.args[i])]
            ELSE IF k \in NodeFields THEN Restore(n[k])
            ELSE n[k]]

RECURSIVE HasInserted(_)
\* the tree holds a Cast the pass allocated
HasInserted(n) ==
    Inserted(n) \/ \E i \in DOMAIN Children(n) : HasInserted(Children(n)[i])

\* C23: upcast only inserts Cast nodes.  With every Cast the pass inserted
\* replaced by its expr child, the output is the input tree: the same nodes,
\* of the same kinds and fields, each at the position it had.
C23_OnlyInserts ==
    passes >= 1 => Restore(out1) = root

\* the pass ran over a call whose arguments hold a binary operation, and
\* inserted Casts below the operation and among the arguments
C23_Witness ==
    /\ passes >= 1
    /\ root.kind = "NativeFuncCall"
    /\ \E i \in DOMAIN root.args :
          /\ root.args[i].kind = "BinaryOp"
          /\ out1.args[i].kind = "Cast"
          /\ Inserted(out1.args[i])
          /\ HasInserted(out1.args[i].expr)
    /\ Restore(out1) = root

====
